---- MODULE Spec2Model ----
(***************************************************************************)
(* VQModelPaella (src/src/diffusers/models/vq_paella.py): the assembly of  *)
(* the encoder / decoder stacks in __init__, and the encode, decode and    *)
(* forward methods, as a state machine over tensor shapes and symbolic     *)
(* tensor values.                                                          *)
(*                                                                         *)
(* A tensor is [shape |-> <<N, C, H, W>>, val |-> <<token, ...>>]: its     *)
(* shape as torch computes it, and its value as the ordered list of the    *)
(* operations that produced it from an input (two tensors are numerically  *)
(* identical iff the same operations were applied to the same input under  *)
(* the same statistics).  The running statistics of the BatchNorm2d layer  *)
(* are represented by the ordered list of the batches folded into them.    *)
(***************************************************************************)
EXTENDS Integers, Sequences, FiniteSets, TLC

VARIABLES
    config,       \* the arguments registered by @register_to_config
    built,        \* __init__ has run
    c_levels,     \* the channel-width schedule (1-based; Python index i is i+1 here)
    in_block,     \* self.in_block, a list of layer descriptors
    down_blocks,  \* self.down_blocks
    up_blocks,    \* self.up_blocks
    out_block,    \* self.out_block
    training,     \* nn.Module.training
    bn,           \* buffers of the BatchNorm2d of down_blocks: num_batches_tracked, running
    calls         \* per caller: the call in progress (or the last one finished)

vars == <<config, built, c_levels, in_block, down_blocks, up_blocks, out_block,
          training, bn, calls>>

module == <<c_levels, in_block, down_blocks, up_blocks, out_block>>

-----------------------------------------------------------------------------
(* Bounds of the model *)

MaxBatch == 2
MaxLevels == 2
MaxScale == 3
MaxTracked == 2

(* Inputs *)

Hidden == {5, 64, 384}
Bottleneck == {1, 12}
OutChannels == {3, 4}
ImageChannels == {3, 4}
Sizes == {<<3, 3>>, <<6, 6>>, <<18, 18>>, <<32, 32>>, <<64, 64>>, <<32, 64>>, <<18, 6>>}
LatentChannels == {3, 4}
LatentSizes == {<<1, 1>>, <<16, 16>>, <<8, 16>>}

Callers == {1}
ConcCallers == {1, 2}

Configs ==
    { c \in [in_channels : {3}, out_channels : OutChannels,
             up_down_scale_factor : 1..MaxScale, levels : 1..MaxLevels,
             bottleneck_blocks : Bottleneck, c_hidden : Hidden, c_latent : {4}] :
        c.c_hidden \div (2 ^ (c.levels - 1)) >= 1 }

ConcConfigs ==
    { c \in Configs : /\ c.out_channels = 3 /\ c.up_down_scale_factor = 2
                      /\ c.levels = 2 /\ c.bottleneck_blocks = 12
                      /\ c.c_hidden = 384 }

-----------------------------------------------------------------------------
(* Tensors *)

Err == <<0, 0, 0, 0>>

Tok(op, arg) == [op |-> op, arg |-> arg]

NoTensor == [shape |-> Err, val |-> <<>>]

Input(n, c, h, w, id) == [shape |-> <<n, c, h, w>>, val |-> <<Tok("input", <<id>>)>>]

Images ==
    { Input(n, c, hw[1], hw[2], 0) : n \in 1..MaxBatch, c \in ImageChannels, hw \in Sizes }

Latents ==
    { Input(n, c, hw[1], hw[2], 0) : n \in 1..MaxBatch, c \in LatentChannels,
                                     hw \in LatentSizes }

ConcImages == { Input(1, 3, 4, 4, 0), Input(2, 3, 8, 8, 1) }

ConcLatents == { Input(1, 4, 2, 2, 0) }

Source(t) == t.val[1].arg[1]

Count(op, val) == Cardinality({ i \in 1..Len(val) : val[i].op = op })

-----------------------------------------------------------------------------
(* Layers: what each torch layer does to a shape *)

Layer(kind, cin, cout, k, stride, pad) ==
    [kind |-> kind, cin |-> cin, cout |-> cout, k |-> k, stride |-> stride, pad |-> pad]

PixelUnshuffle(f) == Layer("PixelUnshuffle", 0, 0, f, f, 0)
PixelShuffle(f) == Layer("PixelShuffle", 0, 0, f, f, 0)
Conv2d(cin, cout, k, stride, pad) == Layer("Conv2d", cin, cout, k, stride, pad)
ConvTranspose2d(cin, cout, k, stride, pad) == Layer("ConvTranspose2d", cin, cout, k, stride, pad)
MixingResidualBlock(c, c_hid) == Layer("MixingResidualBlock", c, c_hid, 0, 1, 0)
BatchNorm2d(c) == Layer("BatchNorm2d", c, c, 0, 1, 0)

ApplyLayer(l, s) ==
    IF s = Err THEN Err
    ELSE LET n == s[1]
             c == s[2]
             h == s[3]
             w == s[4]
         IN CASE l.kind = "PixelUnshuffle" ->
                   IF h % l.k = 0 /\ w % l.k = 0
                   THEN <<n, c * l.k * l.k, h \div l.k, w \div l.k>> ELSE Err
              [] l.kind = "PixelShuffle" ->
                   IF c % (l.k * l.k) = 0
                   THEN <<n, c \div (l.k * l.k), h * l.k, w * l.k>> ELSE Err
              [] l.kind = "Conv2d" ->
                   IF c = l.cin /\ h + 2 * l.pad >= l.k /\ w + 2 * l.pad >= l.k
                   THEN <<n, l.cout, (h + 2 * l.pad - l.k) \div l.stride + 1,
                                     (w + 2 * l.pad - l.k) \div l.stride + 1>>
                   ELSE Err
              [] l.kind = "ConvTranspose2d" ->
                   IF c = l.cin
                   THEN <<n, l.cout, (h - 1) * l.stride - 2 * l.pad + l.k,
                                     (w - 1) * l.stride - 2 * l.pad + l.k>>
                   ELSE Err
              [] l.kind = "MixingResidualBlock" -> IF c = l.cin THEN s ELSE Err
              [] l.kind = "BatchNorm2d" -> IF c = l.cin THEN s ELSE Err

RECURSIVE ApplySeq(_, _)
ApplySeq(layers, s) ==
    IF layers = <<>> THEN s
    ELSE ApplySeq(Tail(layers), ApplyLayer(Head(layers), s))

(* the vector quantizer returns a tensor of the shape it was given *)
VectorQuantizer(s) == s

-----------------------------------------------------------------------------
(* __init__ *)

CLevels_Unreversed(cfg) ==
    [i \in 1..cfg.levels |-> cfg.c_hidden \div (2 ^ (i - 1))]

CLevels(cfg) ==
    [i \in 1..cfg.levels |-> cfg.c_hidden \div (2 ^ (cfg.levels - i))]

InBlock_NoUnshuffle(cfg, cl) ==
    << Conv2d(cfg.in_channels * cfg.up_down_scale_factor ^ 2, cl[1], 1, 1, 0) >>

InBlock(cfg, cl) ==
    << PixelUnshuffle(cfg.up_down_scale_factor),
       Conv2d(cfg.in_channels * cfg.up_down_scale_factor ^ 2, cl[1], 1, 1, 0) >>

RECURSIVE DownLevels(_, _, _)
DownLevels(cfg, cl, i) ==
    IF i > cfg.levels THEN <<>>
    ELSE (IF i > 1 THEN << Conv2d(cl[i - 1], cl[i], 4, 2, 1) >> ELSE <<>>)
         \o << MixingResidualBlock(cl[i], cl[i] * 4) >>
         \o DownLevels(cfg, cl, i + 1)

RECURSIVE DownLevels_ConvEveryLevel(_, _, _)
DownLevels_ConvEveryLevel(cfg, cl, i) ==
    IF i > cfg.levels THEN <<>>
    ELSE << Conv2d(cl[IF i > 1 THEN i - 1 ELSE cfg.levels], cl[i], 4, 2, 1) >>
         \o << MixingResidualBlock(cl[i], cl[i] * 4) >>
         \o DownLevels_ConvEveryLevel(cfg, cl, i + 1)

DownCascade_ConvEveryLevel(cfg, cl) == DownLevels_ConvEveryLevel(cfg, cl, 1)

DownCascade(cfg, cl) == DownLevels(cfg, cl, 1)

DownBlocks(cfg, cl) ==
    DownCascade(cfg, cl)
    \o << Conv2d(cl[cfg.levels], cfg.c_latent, 1, 1, 0), BatchNorm2d(cfg.c_latent) >>

Repeat(l, n) == [j \in 1..n |-> l]

RECURSIVE UpLevels(_, _, _)
UpLevels(cfg, cl, i) ==
    IF i >= cfg.levels THEN <<>>
    ELSE LET c == cl[cfg.levels - i]
         IN Repeat(MixingResidualBlock(c, c * 4),
                   IF i = 0 THEN cfg.bottleneck_blocks ELSE 1)
            \o (IF i < cfg.levels - 1
                THEN << ConvTranspose2d(c, cl[cfg.levels - 1 - i], 4, 2, 1) >>
                ELSE <<>>)
            \o UpLevels(cfg, cl, i + 1)

UpBlocks(cfg, cl) ==
    << Conv2d(cfg.c_latent, cl[cfg.levels], 1, 1, 0) >> \o UpLevels(cfg, cl, 0)

OutBlock_InChannels(cfg, cl) ==
    << Conv2d(cl[1], cfg.in_channels * cfg.up_down_scale_factor ^ 2, 1, 1, 0),
       PixelShuffle(cfg.up_down_scale_factor) >>

OutBlock(cfg, cl) ==
    << Conv2d(cl[1], cfg.out_channels * cfg.up_down_scale_factor ^ 2, 1, 1, 0),
       PixelShuffle(cfg.up_down_scale_factor) >>

BN0 == [num_batches_tracked |-> 0, running |-> <<>>]

-----------------------------------------------------------------------------
(* encode, decode, forward: the tensor each statement computes *)

Default_return_dict == TRUE

Default_force_not_quantize_Off == FALSE

Default_force_not_quantize == TRUE

Push(t, op, arg, s) == [shape |-> s, val |-> Append(t.val, Tok(op, arg))]

(* self.in_block(x), then self.down_blocks up to the BatchNorm2d *)
EncodeDownT(x) ==
    LET s1 == ApplySeq(in_block, x.shape)
        s2 == ApplySeq(SubSeq(down_blocks, 1, Len(down_blocks) - 1), s1)
    IN IF s1 = Err THEN NoTensor
       ELSE IF s2 = Err THEN NoTensor
       ELSE Push(Push(x, "in_block", <<>>, s1), "down_blocks", <<>>, s2)

(* BatchNorm2d updates its buffers in training mode only *)
BNTracks_Always(train) == TRUE

BNTracks(train) == train

(* BatchNorm2d normalises with the batch's statistics in training mode, with
   the running statistics in evaluation mode *)
BNUsesBatchStats_Never(train) == FALSE

BNUsesBatchStats(train) == train

(* the BatchNorm2d that ends self.down_blocks; in training mode a batch with
   a single value per channel raises ValueError *)
BatchNormT(h, train, running) ==
    LET s == ApplyLayer(down_blocks[Len(down_blocks)], h.shape)
    IN IF s = Err THEN NoTensor
       ELSE IF train /\ s[1] * s[3] * s[4] = 1 THEN NoTensor
       ELSE IF BNUsesBatchStats(train) THEN Push(h, "bn_batch_stats", <<>>, s)
       ELSE Push(h, "bn_running_stats", running, s)

DivScale(h) == Push(h, "div_scale_factor", <<>>, h.shape)

EncodeT(x, train, running) ==
    LET h == EncodeDownT(x)
        b == BatchNormT(h, train, running)
    IN IF h = NoTensor THEN NoTensor
       ELSE IF b = NoTensor THEN NoTensor
       ELSE DivScale(b)

Quantizes_Inverted(force_not_quantize) == force_not_quantize

Quantizes(force_not_quantize) == ~force_not_quantize

MulScale(h) == Push(h, "mul_scale_factor", <<>>, h.shape)

QuantT(h, force_not_quantize) ==
    IF Quantizes(force_not_quantize)
    THEN Push(MulScale(h), "vquantizer", <<>>, VectorQuantizer(h.shape))
    ELSE MulScale(h)

DecodeUpT(quant) ==
    LET s1 == ApplySeq(up_blocks, quant.shape)
        s2 == ApplySeq(out_block, s1)
    IN IF s1 = Err THEN NoTensor
       ELSE IF s2 = Err THEN NoTensor
       ELSE Push(Push(quant, "up_blocks", <<>>, s1), "out_block", <<>>, s2)

DecodeT(h, force_not_quantize) == DecodeUpT(QuantT(h, force_not_quantize))

EncodeWrap(return_dict) == IF return_dict THEN "VQEncoderOutput" ELSE "tuple"

DecodeWrap(return_dict) == IF return_dict THEN "DecoderOutput" ELSE "tuple"

-----------------------------------------------------------------------------
(* Calls *)

NoRes == [status |-> "none", wrap |-> "none", t |-> NoTensor]

Raised == [status |-> "error", wrap |-> "none", t |-> NoTensor]

Returned(wrap, t) == [status |-> "ok", wrap |-> wrap, t |-> t]

Snap(train, running) == [training |-> train, running |-> running]

IdleCall ==
    [pc |-> "idle", op |-> "none", x |-> NoTensor, force_not_quantize |-> TRUE,
     return_dict |-> TRUE, origin |-> Err, snap |-> Snap(TRUE, <<>>),
     h |-> NoTensor, loc |-> <<>>, nvq |-> 0, res |-> NoRes]

NewCall(op, pc, x, fnq, rd, origin) ==
    [pc |-> pc, op |-> op, x |-> x, force_not_quantize |-> fnq, return_dict |-> rd,
     origin |-> origin, snap |-> Snap(training, bn.running), h |-> x, loc |-> <<>>,
     nvq |-> 0, res |-> NoRes]

Finish(c, res) == [c EXCEPT !.pc = "done", !.res = res, !.h = NoTensor, !.loc = <<>>]

Single == DOMAIN calls = Callers

ImagesFor == IF Single THEN Images ELSE ConcImages

LatentsFor == IF Single THEN Latents ELSE ConcLatents

Quiet(t) == calls[t].pc \in {"idle", "done"}

Idle(t) == calls[t].pc = "idle"

(* calls that have yet to enter the BatchNorm2d *)
Pending == Cardinality({ t \in DOMAIN calls : calls[t].pc = "down" })

Room == training => bn.num_batches_tracked + Pending < MaxTracked

(* the latent a caller holds from its last encode call *)
Held(t) ==
    IF calls[t].pc = "done" /\ calls[t].op = "encode" /\ calls[t].res.status = "ok"
    THEN {calls[t].res.t} ELSE {}

-----------------------------------------------------------------------------
(* Actions *)

Construct ==
    /\ ~built
    /\ built' = TRUE
    /\ c_levels' = CLevels(config)
    /\ in_block' = InBlock(config, c_levels')
    /\ down_blocks' = DownBlocks(config, c_levels')
    /\ up_blocks' = UpBlocks(config, c_levels')
    /\ out_block' = OutBlock(config, c_levels')
    /\ UNCHANGED <<config, training, bn, calls>>

Train ==
    /\ built /\ ~training
    /\ \A t \in DOMAIN calls : Quiet(t)
    /\ training' = TRUE
    /\ UNCHANGED <<config, built, module, bn, calls>>

Eval ==
    /\ built /\ training
    /\ \A t \in DOMAIN calls : Quiet(t)
    /\ training' = FALSE
    /\ UNCHANGED <<config, built, module, bn, calls>>

BeginEncode(t) ==
    /\ built /\ Idle(t) /\ Room
    /\ \E x \in ImagesFor, rd \in BOOLEAN :
         calls' = [calls EXCEPT ![t] = NewCall("encode", "down", x, TRUE, rd, Err)]
    /\ UNCHANGED <<config, built, module, training, bn>>

BeginDecode(t) ==
    /\ built /\ Quiet(t)
    /\ \E h \in (IF Idle(t) THEN LatentsFor ELSE Held(t)), fnq \in BOOLEAN, rd \in BOOLEAN :
         calls' = [calls EXCEPT ![t] =
                     NewCall("decode", "quant", h, fnq, rd,
                             IF h \in Held(t) THEN calls[t].x.shape ELSE Err)]
    /\ UNCHANGED <<config, built, module, training, bn>>

BeginForward(t) ==
    /\ built /\ Idle(t) /\ Room
    /\ \E x \in ImagesFor, rd \in BOOLEAN :
         calls' = [calls EXCEPT ![t] =
                     NewCall("forward", "down", x, Default_force_not_quantize, rd, Err)]
    /\ UNCHANGED <<config, built, module, training, bn>>

(* h = self.in_block(x); self.down_blocks(h) up to the entry of BatchNorm2d,
   which counts the batch and reads the running statistics *)
EncodeDown(t) ==
    /\ calls[t].pc = "down"
    /\ LET h == EncodeDownT(calls[t].h)
       IN IF h = NoTensor
          THEN /\ calls' = [calls EXCEPT ![t] = Finish(@, Raised)]
               /\ bn' = bn
          ELSE /\ calls' = [calls EXCEPT ![t].pc = "norm", ![t].h = h,
                                         ![t].loc = bn.running]
               /\ bn' = IF BNTracks(training)
                        THEN [bn EXCEPT !.num_batches_tracked = @ + 1]
                        ELSE bn
    /\ UNCHANGED <<config, built, module, training>>

(* BatchNorm2d writes the running statistics back and normalises; the result
   is divided by scale_factor and returned *)
EncodeNorm(t) ==
    /\ calls[t].pc = "norm"
    /\ LET c == calls[t]
           b == BatchNormT(c.h, training, bn.running)
       IN IF b = NoTensor
          THEN /\ calls' = [calls EXCEPT ![t] = Finish(@, Raised)]
               /\ bn' = bn
          ELSE /\ bn' = IF BNTracks(training)
                        THEN [bn EXCEPT !.running = Append(c.loc, Source(c.x))]
                        ELSE bn
               /\ calls' = [calls EXCEPT ![t] =
                    IF c.op = "encode"
                    THEN Finish(c, Returned(EncodeWrap(c.return_dict), DivScale(b)))
                    ELSE IF EncodeWrap(Default_return_dict) = "VQEncoderOutput"
                    THEN [c EXCEPT !.pc = "quant", !.h = DivScale(b), !.loc = <<>>]
                    ELSE Finish(c, Raised)]
    /\ UNCHANGED <<config, built, module, training>>

(* quant = h * scale_factor, through self.vquantizer when asked to *)
DecodeQuant(t) ==
    /\ calls[t].pc = "quant"
    /\ calls' = [calls EXCEPT ![t].pc = "up",
                              ![t].h = QuantT(@, calls[t].force_not_quantize),
                              ![t].nvq = @ + Count("vquantizer",
                                    QuantT(calls[t].h, calls[t].force_not_quantize).val)
                                           - Count("vquantizer", calls[t].h.val)]
    /\ UNCHANGED <<config, built, module, training, bn>>

(* x = self.up_blocks(quant); dec = self.out_block(x) *)
DecodeUp(t) ==
    /\ calls[t].pc = "up"
    /\ LET c == calls[t]
           dec == DecodeUpT(c.h)
       IN calls' = [calls EXCEPT ![t] =
            IF dec = NoTensor THEN Finish(c, Raised)
            ELSE IF c.op = "decode"
            THEN Finish(c, Returned(DecodeWrap(c.return_dict), dec))
            ELSE IF DecodeWrap(Default_return_dict) = "DecoderOutput"
            THEN Finish(c, Returned(DecodeWrap(c.return_dict), dec))
            ELSE Finish(c, Raised)]
    /\ UNCHANGED <<config, built, module, training, bn>>

(* the caller drops the result of its last call *)
Return(t) ==
    /\ calls[t].pc = "done"
    /\ calls' = [calls EXCEPT ![t] = IdleCall]
    /\ UNCHANGED <<config, built, module, training, bn>>

Unbuilt ==
    /\ built = FALSE
    /\ c_levels = <<>>
    /\ in_block = <<>>
    /\ down_blocks = <<>>
    /\ up_blocks = <<>>
    /\ out_block = <<>>
    /\ training = TRUE
    /\ bn = BN0

Init ==
    /\ config \in Configs
    /\ Unbuilt
    /\ calls = [t \in Callers |-> IdleCall]

InitConc ==
    /\ config \in ConcConfigs
    /\ Unbuilt
    /\ calls = [t \in ConcCallers |-> IdleCall]

Next ==
    \/ Construct
    \/ Train
    \/ Eval
    \/ \E t \in DOMAIN calls : BeginEncode(t)
    \/ \E t \in DOMAIN calls : BeginDecode(t)
    \/ \E t \in DOMAIN calls : BeginForward(t)
    \/ \E t \in DOMAIN calls : EncodeDown(t)
    \/ \E t \in DOMAIN calls : EncodeNorm(t)
    \/ \E t \in DOMAIN calls : DecodeQuant(t)
    \/ \E t \in DOMAIN calls : DecodeUp(t)
    \/ \E t \in DOMAIN calls : Return(t)

Spec == Init /\ [][Next]_vars

SpecConc == InitConc /\ [][Next]_vars

-----------------------------------------------------------------------------
(* The methods as a caller running alone sees them *)

ResultOf(wrap, t) == IF t = NoTensor THEN Raised ELSE Returned(wrap, t)

Sequential(c) ==
    CASE c.op = "encode" ->
           ResultOf(EncodeWrap(c.return_dict),
                    EncodeT(c.x, c.snap.training, c.snap.running))
      [] c.op = "decode" ->
           ResultOf(DecodeWrap(c.return_dict), DecodeT(c.x, c.force_not_quantize))
      [] c.op = "forward" ->
           ResultOf(DecodeWrap(c.return_dict),
                    LET e == EncodeT(c.x, c.snap.training, c.snap.running)
                    IN IF e = NoTensor THEN NoTensor
                       ELSE DecodeT(e, Default_force_not_quantize))
      [] OTHER -> NoRes

-----------------------------------------------------------------------------
(* Properties *)

Done(t) == calls[t].pc = "done"

Ops(val) == [i \in 1..Len(val) |-> val[i].op]

(* what a call appended to the value of its input *)
Added(c, t) == Ops(SubSeq(t.val, Len(c.x.val) + 1, Len(t.val)))

ScalePowLevels == config.up_down_scale_factor ^ config.levels

Reduction == config.up_down_scale_factor * 2 ^ (config.levels - 1)

(* an image the spec calls valid: in_channels channels, sides divisible by scale^levels *)
ValidImage(s) ==
    /\ s[2] = config.in_channels
    /\ s[3] % ScalePowLevels = 0
    /\ s[4] % ScalePowLevels = 0

(* an image whose sides the unshuffle and every stride-2 convolution divide exactly *)
ExactImage(s) ==
    /\ s[2] = config.in_channels
    /\ s[3] % Reduction = 0
    /\ s[4] % Reduction = 0

RoundTrip(c) ==
    /\ c.pc = "done" /\ c.op = "decode" /\ c.force_not_quantize /\ c.origin # Err

\* C1 (as stated): decode(encode(x), force_not_quantize=True) has exactly the
\* shape of x, for every configuration and every x with in_channels channels
\* and sides divisible by up_down_scale_factor^levels.
C1_SameShapeAsInput ==
    \A t \in DOMAIN calls :
        LET c == calls[t]
        IN (RoundTrip(c) /\ ValidImage(c.origin)) =>
             (c.res.status = "ok" /\ c.res.t.shape = c.origin)

\* C1 (amended): whenever encode(x) returned and the sides of x are divisible
\* by up_down_scale_factor * 2^(levels-1), decode(encode(x), True) has shape
\* (batch, out_channels, H, W).
C1_RoundTripShape ==
    \A t \in DOMAIN calls :
        LET c == calls[t]
        IN (RoundTrip(c) /\ ExactImage(c.origin)) =>
             /\ c.res.status = "ok"
             /\ c.res.t.shape = <<c.origin[1], config.out_channels, c.origin[3], c.origin[4]>>

C1_Witness ==
    \E t \in DOMAIN calls :
        /\ RoundTrip(calls[t]) /\ ExactImage(calls[t].origin)
        /\ config.levels = 2 /\ config.up_down_scale_factor = 3
        /\ config.out_channels # config.in_channels
        /\ calls[t].res.status = "ok"

\* C2 (as stated): the latent encode returns for a valid image
\* (batch, in_channels, H, W) has shape
\* (batch, c_latent, H / scale^levels, W / scale^levels).
C2_LatentShapeScalePowLevels ==
    \A t \in DOMAIN calls :
        LET c == calls[t]
            s == c.x.shape
        IN (Done(t) /\ c.op = "encode" /\ ValidImage(s)) =>
             (c.res.status = "ok" =>
                c.res.t.shape = <<s[1], config.c_latent, s[3] \div ScalePowLevels,
                                  s[4] \div ScalePowLevels>>)

SingleValue(s) == s[1] * (s[3] \div Reduction) * (s[4] \div Reduction) = 1

\* C2 (amended): encode maps every image (batch, in_channels, H, W) whose sides
\* are divisible by scale * 2^(levels-1) to a latent of shape
\* (batch, c_latent, H / (scale * 2^(levels-1)), W / (scale * 2^(levels-1))):
\* the unshuffle divides by scale, each of the levels-1 convolutions by 2;
\* in training mode it raises when the latent has one value per channel.
C2_LatentShape ==
    \A t \in DOMAIN calls :
        LET c == calls[t]
            s == c.x.shape
        IN (Done(t) /\ c.op = "encode" /\ ExactImage(s)) =>
             IF c.snap.training /\ SingleValue(s)
             THEN c.res.status = "error"
             ELSE /\ c.res.status = "ok"
                  /\ c.res.t.shape = <<s[1], config.c_latent, s[3] \div Reduction,
                                       s[4] \div Reduction>>

C2_Witness ==
    \E t \in DOMAIN calls :
        /\ Done(t) /\ calls[t].op = "encode"
        /\ config.levels = 2 /\ config.up_down_scale_factor = 3
        /\ calls[t].x.shape = <<2, 3, 18, 18>>
        /\ calls[t].res.status = "ok"
        /\ calls[t].res.t.shape = <<2, 4, 3, 3>>

C3_Case1(c) ==
    /\ config.levels = 1 /\ config.c_hidden = 64 /\ c.x.shape = <<1, 3, 32, 32>>

C3_Case2(c) ==
    /\ config.levels = 2 /\ config.c_hidden = 384 /\ c.x.shape = <<1, 3, 64, 64>>

\* C3: with up_down_scale_factor = 2 and c_latent = 4, encode maps (1,3,32,32)
\* to (1,4,16,16) when levels = 1 and c_hidden = 64, and (1,3,64,64) to
\* (1,4,16,16) when levels = 2 and c_hidden = 384.
C3_DocumentedShapes ==
    \A t \in DOMAIN calls :
        LET c == calls[t]
        IN (/\ Done(t) /\ c.op = "encode"
            /\ config.up_down_scale_factor = 2 /\ config.c_latent = 4
            /\ config.in_channels = 3
            /\ (C3_Case1(c) \/ C3_Case2(c))) =>
             (c.res.status = "ok" /\ c.res.t.shape = <<1, 4, 16, 16>>)

C3_Witness ==
    \E t \in DOMAIN calls :
        /\ Done(t) /\ calls[t].op = "encode"
        /\ config.up_down_scale_factor = 2 /\ C3_Case2(calls[t])
        /\ calls[t].res.t.shape = <<1, 4, 16, 16>>

\* C4: forward(x) returns what decode(encode(x), force_not_quantize=True)
\* returns (and raises when that raises), never invokes the vector quantizer,
\* and its return_dict decides the wrapper only.
C4_ForwardIsDecodeEncode ==
    \A t \in DOMAIN calls :
        LET c == calls[t]
            e == EncodeT(c.x, c.snap.training, c.snap.running)
            d == IF e = NoTensor THEN NoTensor ELSE DecodeT(e, TRUE)
        IN (c.op = "forward") =>
             /\ c.nvq = 0
             /\ Done(t) =>
                  /\ c.res.status = (IF d = NoTensor THEN "error" ELSE "ok")
                  /\ c.res.t = d
                  /\ c.res.status = "ok" =>
                       c.res.wrap = (IF c.return_dict THEN "DecoderOutput" ELSE "tuple")

C4_Witness ==
    \E t \in DOMAIN calls :
        /\ Done(t) /\ calls[t].op = "forward" /\ calls[t].res.status = "ok"
        /\ ~calls[t].return_dict
        /\ config.levels = 2

\* C5: encode raises for every image whose height or width is not divisible
\* by up_down_scale_factor^levels or whose channel count is not in_channels.
C5_RejectsMalformed ==
    \A t \in DOMAIN calls :
        (Done(t) /\ calls[t].op = "encode" /\ ~ValidImage(calls[t].x.shape)) =>
            calls[t].res.status = "error"

\* C6: a c_hidden that 2^(levels-1) does not divide is rejected at
\* construction: no instance is built from it.
C6_RejectsIndivisibleHidden ==
    built => config.c_hidden % (2 ^ (config.levels - 1)) = 0

C8_ConcurrentAsSequential ==
    \A t \in DOMAIN calls : Done(t) => calls[t].res = Sequential(calls[t])

C8_Witness ==
    /\ training
    /\ \A t \in DOMAIN calls :
         /\ Done(t) /\ calls[t].op \in {"encode", "forward"}
         /\ calls[t].res.status = "ok" /\ calls[t].snap.training
    /\ Cardinality(DOMAIN calls) = 2
    /\ Len(bn.running) < bn.num_batches_tracked

\* C9: the vector quantizer is invoked exactly once by a decode call with
\* force_not_quantize=False, on the latent multiplied by scale_factor, and
\* never by any other call; decode multiplies by scale_factor exactly once in
\* both branches and feeds that to the decode cascade; encode divides by
\* scale_factor exactly once.
C9_QuantizerAndScaling ==
    \A t \in DOMAIN calls :
        LET c == calls[t]
        IN /\ c.nvq = (IF c.op = "decode" /\ ~c.force_not_quantize /\ c.pc \in {"up", "done"}
                       THEN 1 ELSE 0)
           /\ (c.op = "decode" /\ c.pc = "up") =>
                Added(c, c.h) = (IF c.force_not_quantize
                                 THEN <<"mul_scale_factor">>
                                 ELSE <<"mul_scale_factor", "vquantizer">>)
           /\ (c.op = "decode" /\ Done(t) /\ c.res.status = "ok") =>
                Added(c, c.res.t) =
                   (IF c.force_not_quantize
                    THEN <<"mul_scale_factor", "up_blocks", "out_block">>
                    ELSE <<"mul_scale_factor", "vquantizer", "up_blocks", "out_block">>)
           /\ (c.op = "encode" /\ Done(t) /\ c.res.status = "ok") =>
                /\ Len(Added(c, c.res.t)) = 4
                /\ Added(c, c.res.t)[4] = "div_scale_factor"
                /\ Count("div_scale_factor", c.res.t.val) = 1
                /\ Count("mul_scale_factor", c.res.t.val) = 0
                /\ Count("vquantizer", c.res.t.val) = 0
           /\ (c.op = "forward" /\ Done(t) /\ c.res.status = "ok") =>
                /\ Count("div_scale_factor", c.res.t.val) = 1
                /\ Count("mul_scale_factor", c.res.t.val) = 1
                /\ Count("vquantizer", c.res.t.val) = 0

C9_Witness ==
    \E t \in DOMAIN calls :
        /\ Done(t) /\ calls[t].op = "decode" /\ ~calls[t].force_not_quantize
        /\ calls[t].res.status = "ok" /\ calls[t].nvq = 1
        /\ calls[t].origin # Err

Schedule ==
    /\ Len(c_levels) = config.levels
    /\ \A i \in 1..config.levels :
         c_levels[i] = config.c_hidden \div (2 ^ (config.levels - i))

\* C10 (as stated): c_levels[i] = c_hidden // 2^(levels-1-i), and index 0 is
\* the widest level: c_levels[0] >= c_levels[i] for every i.
C10_IndexZeroWidest ==
    built => /\ Schedule
             /\ \A i \in 1..config.levels : c_levels[1] >= c_levels[i]

\* C10 (amended): c_levels[i] = c_hidden // 2^(levels-1-i), and index 0 is the
\* narrowest level: c_levels[0] <= c_levels[i] for every i, the last is
\* c_hidden, each level is at least twice as wide as the one before, and
\* the input projection and the output stage operate at c_levels[0].
C10_IndexZeroNarrowest ==
    built => /\ Schedule
             /\ \A i \in 1..config.levels : c_levels[1] <= c_levels[i]
             /\ \A i \in 2..config.levels : c_levels[i] >= 2 * c_levels[i - 1]
             /\ c_levels[config.levels] = config.c_hidden
             /\ in_block[Len(in_block)].cout = c_levels[1]
             /\ out_block[1].cin = c_levels[1]

C10_Witness ==
    /\ built /\ config.levels = 2 /\ config.c_hidden = 5
    /\ c_levels = <<2, 5>>

====
